---- MODULE Spec2Model ----
(***************************************************************************)
(* Model of plugins/GSdx/boost_spsc_queue.hpp: ringbuffer_base<T,max_size>, *)
(* a single-producer/single-consumer ring.  Each member function is split  *)
(* into its atomic loads, slot accesses and stores; thread "P" is the      *)
(* producer, thread "C" the consumer.                                      *)
(***************************************************************************)
EXTENDS Integers, Sequences, FiniteSets, TLC

\* ---- bounds of the model ------------------------------------------------
\* template parameter max_size: number of slots of the backing buffer
max_size == 3
\* payload values pushed by the producer
MaxVal == 2

Values == 1..MaxVal
Threads == {"P", "C"}
Slots == 0..(max_size - 1)
\* the usable capacity that the code's full test leaves (one slot stays free)
Capacity == max_size - 1

\* a slot of the malloc'ed buffer: raw memory, a live T, or a destroyed T
Raw == [st |-> "raw", val |-> 0]

VARIABLES
  write_index_,            \* atomic<size_t> write_index_
  read_index_,             \* atomic<size_t> read_index_
  pending_pop_read_index,  \* size_t pending_pop_read_index
  buffer,                  \* T *buffer, as a function from slot index
  pc,                      \* per thread: position inside the running call
  l_write,                 \* per thread: local const size_t write_index
  l_read,                  \* per thread: local const size_t read_index
  arg,                     \* push's parameter t
  out,                     \* pop's parameter ret (caller's variable)
  res,                     \* per thread: last completed call and its result
  steps,                   \* per thread: steps taken by the running call
  fcalls,                  \* invocations of f by the running consume_one
  holding,                 \* consumer is between front() and pop()
  inq,                     \* history: values of the successful pushes that
                           \*   were not handed out yet, oldest first
  faults,                  \* history: lifetime and order violations observed
  nreset,                  \* history: parity of the number of reset() calls
  phase,                   \* "live", "draining" (in ~ringbuffer_base), "freed"
  rt                       \* caller's script for the sequential round trip

vars == <<write_index_, read_index_, pending_pop_read_index, buffer, pc,
          l_write, l_read, arg, out, res, steps, fcalls, holding, inq,
          faults, nreset, phase, rt>>

cursors == <<write_index_, read_index_, pending_pop_read_index>>
hist == <<inq, faults, nreset>>

\* ---- pure functions -----------------------------------------------------
\* next_index without the wrap-around
next_index_nowrap(a) == a + 1

\* next_index that wraps at the capacity instead of the slot count
next_index_capacity(a) == (a + 1) % Capacity

\* next_index that wraps one position too late
next_index_late(a) == IF a + 1 > max_size THEN 0 ELSE a + 1

next_index(a) == (a + 1) % max_size

empty_(write_index, read_index) == write_index = read_index

\* the full test written without the wrap-around of next_index
is_full_nowrap(write_index, read_index) == write_index + 1 = read_index

\* push's test "next == read_index_.load(memory_order_acquire)"
is_full(write_index, read_index) == next_index(write_index) = read_index

\* size() that measures from write_index to read_index
size_of_swapped(write_index, read_index) ==
  IF write_index > read_index THEN (read_index + max_size) - write_index
  ELSE read_index - write_index

\* size() that subtracts without the wrap-around correction
size_of_nowrap(write_index, read_index) == write_index - read_index

size_of(write_index, read_index) ==
  IF read_index > write_index
    THEN (write_index + max_size) - read_index
    ELSE write_index - read_index

\* ---- object lifetime in a slot ------------------------------------------
\* new (buffer + i) T(t)
construct(i, v) ==
  /\ buffer' = [buffer EXCEPT ![i] = [st |-> "live", val |-> v]]
  /\ faults' = IF buffer[i].st = "live"
                 THEN faults \cup {"construct_over_live"} ELSE faults

\* buffer[i].~T()
destroy_fault(i) ==
  IF buffer[i].st # "live" THEN faults \cup {"destroy_not_live"} ELSE faults

destroy(i) ==
  /\ buffer' = [buffer EXCEPT ![i] = Raw]
  /\ faults' = destroy_fault(i)

\* the values a read of buffer[i] can produce
readable(i) == IF buffer[i].st = "live" THEN {buffer[i].val} ELSE Values

read_fault(i) ==
  IF buffer[i].st # "live" THEN faults \cup {"read_not_live"} ELSE faults

\* value v is handed to the consumer: it has to be the oldest pushed value
\* that was not handed out before
deliver(v, f) ==
  /\ inq' = IF inq = <<>> THEN inq ELSE Tail(inq)
  /\ faults' = IF inq = <<>> \/ Head(inq) # v
                 THEN f \cup {"out_of_order"} ELSE f

\* ---- bookkeeping of calls -----------------------------------------------
NoRes == [op |-> "none", ok |-> FALSE, n |-> 0]

\* first step of a call: the result of the previous call is consumed
call(t, l) ==
  /\ pc' = [pc EXCEPT ![t] = l]
  /\ steps' = [steps EXCEPT ![t] = 1]
  /\ res' = [res EXCEPT ![t] = NoRes]

goto(t, l) ==
  /\ pc' = [pc EXCEPT ![t] = l]
  /\ steps' = [steps EXCEPT ![t] = @ + 1]

AllIdle == \A t \in Threads : pc[t] = "idle"

\* ---- the callers ----------------------------------------------------------
\* The sequential round-trip caller: empty(); push until it fails; size();
\* as many pop(out) as pushes succeeded; empty(); one more pop(out).
FreeRt == [stage |-> "free", pushes |-> 0, calls |-> 0, pops |-> 0,
           e1 |-> FALSE, sz |-> 0, e2 |-> FALSE, last |-> FALSE]

script_next(ok, n) ==
  CASE rt.stage = "e1" -> [rt EXCEPT !.stage = "fill", !.e1 = ok]
    [] rt.stage = "fill" ->
         IF ok THEN [rt EXCEPT !.pushes = @ + 1]
               ELSE [rt EXCEPT !.stage = "sz"]
    [] rt.stage = "sz" ->
         [rt EXCEPT !.stage = IF rt.pushes = 0 THEN "e2" ELSE "drain",
                    !.sz = n]
    [] rt.stage = "drain" ->
         [rt EXCEPT !.calls = @ + 1,
                    !.pops = IF ok THEN @ + 1 ELSE @,
                    !.stage = IF rt.calls + 1 = rt.pushes THEN "e2" ELSE @]
    [] rt.stage = "e2" -> [rt EXCEPT !.stage = "last", !.e2 = ok]
    [] rt.stage = "last" -> [rt EXCEPT !.stage = "done", !.last = ok]
    [] OTHER -> rt

script_op ==
  CASE rt.stage \in {"e1", "e2"} -> "empty"
    [] rt.stage = "fill" -> "push"
    [] rt.stage = "sz" -> "size"
    [] rt.stage \in {"drain", "last"} -> "pop"
    [] OTHER -> "none"

\* thread t may start a call of op now: at any time (stages "free" and
\* "retry", where a refused push is repeated with the same value), only
\* while no other call is in progress (stage "seq"), or as the script says
may_call(t, op) ==
  /\ pc[t] = "idle"
  /\ phase = "live"
  /\ \/ rt.stage \in {"free", "retry"}
     \/ rt.stage = "seq" /\ AllIdle
     \/ AllIdle /\ script_op = op

\* caller contract of front(): the ring is not empty and no earlier front()
\* is still unreleased
\* the producer that retries: a value whose push was refused is pushed again
retrying == rt.stage = "retry"

push_value_ok(v) == (retrying /\ arg # 0) => v = arg

refused_arg == IF retrying THEN arg ELSE 0

front_pre == ~holding /\ read_index_ # write_index_

\* caller contract of pop(): a front() is pending
release_pre == holding

\* caller contract of pop(out) and consume_one(f): no front() is pending
remove_pre == ~holding

return(t, op, ok, n) ==
  /\ rt' = script_next(ok, n)
  /\ pc' = [pc EXCEPT ![t] = "idle"]
  /\ steps' = [steps EXCEPT ![t] = IF pc[t] = "idle" THEN 1 ELSE @ + 1]
  /\ res' = [res EXCEPT ![t] = [op |-> op, ok |-> ok, n |-> n]]
  /\ l_write' = [l_write EXCEPT ![t] = 0]
  /\ l_read' = [l_read EXCEPT ![t] = 0]

\* ---- bool push(T const & t) ------------------------------------------------
push_load_write(v) ==
  /\ may_call("P", "push")
  /\ push_value_ok(v)
  /\ arg' = v
  /\ l_write' = [l_write EXCEPT !["P"] = write_index_]
  /\ call("P", "push_load_read")
  /\ UNCHANGED <<cursors, buffer, l_read, out, fcalls, holding, hist,
                 phase, rt>>

\* push that constructs the element before it tests for a full ring
push_full_partial ==
  /\ pc["P"] = "push_load_read"
  /\ is_full(l_write["P"], read_index_)
  /\ construct(l_write["P"], arg)
  /\ return("P", "push", FALSE, 0)
  /\ arg' = 0
  /\ UNCHANGED <<cursors, out, fcalls, holding, inq, nreset, phase>>

\* push that retries while the ring is full instead of returning false
push_full_spin ==
  /\ pc["P"] = "push_load_read"
  /\ is_full(l_write["P"], read_index_)
  /\ goto("P", "push_load_read")
  /\ UNCHANGED <<cursors, buffer, l_write, l_read, arg, out, res, fcalls,
                 holding, hist, phase, rt>>

push_full ==
  /\ pc["P"] = "push_load_read"
  /\ is_full(l_write["P"], read_index_)
  /\ return("P", "push", FALSE, 0)
  /\ arg' = refused_arg
  /\ UNCHANGED <<cursors, buffer, out, fcalls, holding, hist, phase>>

\* push that publishes the advanced write index before it constructs
push_load_read_publish ==
  /\ pc["P"] = "push_load_read"
  /\ ~is_full(l_write["P"], read_index_)
  /\ l_read' = [l_read EXCEPT !["P"] = read_index_]
  /\ write_index_' = next_index(l_write["P"])
  /\ goto("P", "push_construct")
  /\ UNCHANGED <<read_index_, pending_pop_read_index, buffer, l_write, arg,
                 out, res, fcalls, holding, hist, phase, rt>>

push_load_read ==
  /\ pc["P"] = "push_load_read"
  /\ ~is_full(l_write["P"], read_index_)
  /\ l_read' = [l_read EXCEPT !["P"] = read_index_]
  /\ goto("P", "push_construct")
  /\ UNCHANGED <<cursors, buffer, l_write, arg, out, res, fcalls, holding,
                 hist, phase, rt>>

push_construct ==
  /\ pc["P"] = "push_construct"
  /\ construct(l_write["P"], arg)
  /\ goto("P", "push_store")
  /\ UNCHANGED <<cursors, l_write, l_read, arg, out, res, fcalls, holding,
                 inq, nreset, phase, rt>>

push_store ==
  /\ pc["P"] = "push_store"
  /\ write_index_' = next_index(l_write["P"])
  /\ inq' = Append(inq, arg)
  /\ return("P", "push", TRUE, 0)
  /\ arg' = 0
  /\ UNCHANGED <<read_index_, pending_pop_read_index, buffer, out, fcalls,
                 holding, faults, nreset, phase>>

\* ---- bool pop(T & ret) -----------------------------------------------------
pop_load_write ==
  /\ \/ may_call("C", "pop") /\ remove_pre
     \/ pc["C"] = "idle" /\ phase = "draining"
  /\ l_write' = [l_write EXCEPT !["C"] = write_index_]
  /\ call("C", "pop_load_read")
  /\ UNCHANGED <<cursors, buffer, l_read, arg, out, fcalls, holding,
                 hist, phase, rt>>

\* the empty return of pop, taken by a consumer at label l
pop_empty_at(l) ==
  /\ pc["C"] = l
  /\ empty_(l_write["C"], read_index_)
  /\ return("C", "pop", FALSE, 0)
  /\ phase' = IF phase = "draining" THEN "freed" ELSE phase
  /\ UNCHANGED <<cursors, buffer, arg, out, fcalls, holding, hist>>

\* pop that assigns a default T to ret when the ring is empty
pop_empty_clobber ==
  /\ pc["C"] = "pop_load_read"
  /\ empty_(l_write["C"], read_index_)
  /\ out' = 0
  /\ return("C", "pop", FALSE, 0)
  /\ phase' = IF phase = "draining" THEN "freed" ELSE phase
  /\ UNCHANGED <<cursors, buffer, arg, fcalls, holding, hist>>

pop_empty == pop_empty_at("pop_load_read")

pop_load_read ==
  /\ pc["C"] = "pop_load_read"
  /\ ~empty_(l_write["C"], read_index_)
  /\ l_read' = [l_read EXCEPT !["C"] = read_index_]
  /\ goto("C", "pop_copy")
  /\ UNCHANGED <<cursors, buffer, l_write, arg, out, res, fcalls, holding,
                 hist, phase, rt>>

pop_copy ==
  /\ pc["C"] = "pop_copy"
  /\ \E v \in readable(l_read["C"]) : out' = v
  /\ faults' = read_fault(l_read["C"])
  /\ goto("C", "pop_destroy")
  /\ UNCHANGED <<cursors, buffer, l_write, l_read, arg, res, fcalls, holding,
                 inq, nreset, phase, rt>>

\* pop that leaves the copied element constructed in its slot
pop_destroy_skip ==
  /\ pc["C"] = "pop_destroy"
  /\ goto("C", "pop_store")
  /\ UNCHANGED <<cursors, buffer, l_write, l_read, arg, out, res, fcalls,
                 holding, hist, phase, rt>>

pop_destroy ==
  /\ pc["C"] = "pop_destroy"
  /\ destroy(l_read["C"])
  /\ goto("C", "pop_store")
  /\ UNCHANGED <<cursors, l_write, l_read, arg, out, res, fcalls, holding,
                 inq, nreset, phase, rt>>

\* pop that stores the read index it loaded, without advancing it
pop_store_noadvance ==
  /\ pc["C"] = "pop_store"
  /\ read_index_' = l_read["C"]
  /\ deliver(out, faults)
  /\ return("C", "pop", TRUE, 0)
  /\ UNCHANGED <<write_index_, pending_pop_read_index, buffer, arg, out,
                 fcalls, holding, nreset, phase>>

pop_store ==
  /\ pc["C"] = "pop_store"
  /\ read_index_' = next_index(l_read["C"])
  /\ deliver(out, faults)
  /\ return("C", "pop", TRUE, 0)
  /\ UNCHANGED <<write_index_, pending_pop_read_index, buffer, arg, out,
                 fcalls, holding, nreset, phase>>

\* ---- T& front() ------------------------------------------------------------
\* front() that returns the head without recording its index
front_nostore ==
  /\ may_call("C", "front")
  /\ front_pre
  /\ holding' = TRUE
  /\ return("C", "front", TRUE, read_index_)
  /\ UNCHANGED <<cursors, buffer, arg, out, fcalls, hist, phase>>

front ==
  /\ may_call("C", "front")
  /\ front_pre
  /\ pending_pop_read_index' = read_index_
  /\ holding' = TRUE
  /\ return("C", "front", TRUE, read_index_)
  /\ UNCHANGED <<write_index_, read_index_, buffer, arg, out, fcalls, hist,
                 phase>>

\* ---- void pop() ------------------------------------------------------------
pop0_destroy ==
  /\ may_call("C", "pop0")
  /\ release_pre
  /\ \E v \in readable(pending_pop_read_index) :
       deliver(v, destroy_fault(pending_pop_read_index))
  /\ buffer' = [buffer EXCEPT ![pending_pop_read_index] = Raw]
  /\ call("C", "pop0_store")
  /\ UNCHANGED <<cursors, l_write, l_read, arg, out, fcalls, holding,
                 nreset, phase, rt>>

\* pop() that stores the pending index without advancing it
pop0_store_noadvance ==
  /\ pc["C"] = "pop0_store"
  /\ read_index_' = pending_pop_read_index
  /\ holding' = FALSE
  /\ return("C", "pop0", TRUE, 0)
  /\ UNCHANGED <<write_index_, pending_pop_read_index, buffer, arg, out,
                 fcalls, hist, phase>>

\* pop() that publishes the new index through write_index_
pop0_store_wrongcursor ==
  /\ pc["C"] = "pop0_store"
  /\ write_index_' = next_index(pending_pop_read_index)
  /\ return("C", "pop0", TRUE, 0)
  /\ holding' = FALSE
  /\ UNCHANGED <<read_index_, pending_pop_read_index, buffer, arg, out,
                 fcalls, hist, phase>>

pop0_store ==
  /\ pc["C"] = "pop0_store"
  /\ read_index_' = next_index(pending_pop_read_index)
  /\ holding' = FALSE
  /\ return("C", "pop0", TRUE, 0)
  /\ UNCHANGED <<write_index_, pending_pop_read_index, buffer, arg, out,
                 fcalls, hist, phase>>

\* ---- bool consume_one(Functor & f) -----------------------------------------
consume_one_load_write ==
  /\ may_call("C", "consume_one")
  /\ remove_pre
  /\ l_write' = [l_write EXCEPT !["C"] = write_index_]
  /\ fcalls' = 0
  /\ call("C", "consume_one_load_read")
  /\ UNCHANGED <<cursors, buffer, l_read, arg, out, holding, hist,
                 phase, rt>>

consume_one_empty ==
  /\ pc["C"] = "consume_one_load_read"
  /\ empty_(l_write["C"], read_index_)
  /\ return("C", "consume_one", FALSE, fcalls)
  /\ UNCHANGED <<cursors, buffer, arg, out, fcalls, holding, hist, phase>>

\* consume_one that destroys the head element without calling f on it
consume_one_load_read_skip ==
  /\ pc["C"] = "consume_one_load_read"
  /\ ~empty_(l_write["C"], read_index_)
  /\ l_read' = [l_read EXCEPT !["C"] = read_index_]
  /\ inq' = Tail(inq)
  /\ goto("C", "consume_one_destroy")
  /\ UNCHANGED <<cursors, buffer, l_write, arg, out, res, fcalls, holding,
                 faults, nreset, phase, rt>>

consume_one_load_read ==
  /\ pc["C"] = "consume_one_load_read"
  /\ ~empty_(l_write["C"], read_index_)
  /\ l_read' = [l_read EXCEPT !["C"] = read_index_]
  /\ goto("C", "consume_one_call")
  /\ UNCHANGED <<cursors, buffer, l_write, arg, out, res, fcalls, holding,
                 hist, phase, rt>>

consume_one_call ==
  /\ pc["C"] = "consume_one_call"
  /\ \E v \in readable(l_read["C"]) : deliver(v, read_fault(l_read["C"]))
  /\ fcalls' = fcalls + 1
  /\ goto("C", "consume_one_destroy")
  /\ UNCHANGED <<cursors, buffer, l_write, l_read, arg, out, res, holding,
                 nreset, phase, rt>>

consume_one_destroy ==
  /\ pc["C"] = "consume_one_destroy"
  /\ destroy(l_read["C"])
  /\ goto("C", "consume_one_store")
  /\ UNCHANGED <<cursors, l_write, l_read, arg, out, res, fcalls, holding,
                 inq, nreset, phase, rt>>

consume_one_store ==
  /\ pc["C"] = "consume_one_store"
  /\ read_index_' = next_index(l_read["C"])
  /\ return("C", "consume_one", TRUE, fcalls)
  /\ fcalls' = 0
  /\ UNCHANGED <<write_index_, pending_pop_read_index, buffer, arg, out,
                 holding, hist, phase>>

\* ---- bool empty(void) ------------------------------------------------------
\* The two loads are arguments of one call: either may be evaluated first.
empty_load_write_first(t) ==
  /\ may_call(t, "empty")
  /\ l_write' = [l_write EXCEPT ![t] = write_index_]
  /\ call(t, "empty_load_read")
  /\ UNCHANGED <<cursors, buffer, l_read, arg, out, fcalls, holding,
                 hist, phase, rt>>

empty_load_read_first(t) ==
  /\ may_call(t, "empty")
  /\ l_read' = [l_read EXCEPT ![t] = read_index_]
  /\ call(t, "empty_load_write")
  /\ UNCHANGED <<cursors, buffer, l_write, arg, out, fcalls, holding,
                 hist, phase, rt>>

empty_load_read_second(t) ==
  /\ pc[t] = "empty_load_read"
  /\ return(t, "empty", empty_(l_write[t], read_index_), 0)
  /\ UNCHANGED <<cursors, buffer, arg, out, fcalls, holding, hist, phase>>

empty_load_write_second(t) ==
  /\ pc[t] = "empty_load_write"
  /\ return(t, "empty", empty_(write_index_, l_read[t]), 0)
  /\ UNCHANGED <<cursors, buffer, arg, out, fcalls, holding, hist, phase>>

\* ---- size_t size() const ---------------------------------------------------
size_load_write(t) ==
  /\ may_call(t, "size")
  /\ l_write' = [l_write EXCEPT ![t] = write_index_]
  /\ call(t, "size_load_read")
  /\ UNCHANGED <<cursors, buffer, l_read, arg, out, fcalls, holding,
                 hist, phase, rt>>

size_load_read(t) ==
  /\ pc[t] = "size_load_read"
  /\ return(t, "size", TRUE, size_of(l_write[t], read_index_))
  /\ UNCHANGED <<cursors, buffer, arg, out, fcalls, holding, hist, phase>>

\* ---- bool is_lock_free(void) const ------------------------------------------
\* The answer is a property of the platform's atomic<size_t>.
is_lock_free(t) ==
  /\ may_call(t, "is_lock_free")
  /\ \E b \in BOOLEAN : return(t, "is_lock_free", b, 0)
  /\ UNCHANGED <<cursors, buffer, arg, out, fcalls, holding, hist, phase>>

\* reset that stores only write_index_
reset_half ==
  /\ AllIdle
  /\ phase = "live"
  /\ rt.stage = "free"
  /\ write_index_' = 0
  /\ nreset' = 1 - nreset
  /\ inq' = <<>>
  /\ UNCHANGED <<read_index_, pending_pop_read_index, buffer, pc, l_write,
                 l_read, arg, out, res, steps, fcalls, holding, faults, phase,
                 rt>>

\* ---- void reset(void) ------------------------------------------------------
\* "Not thread-safe": called only while no call is in progress.
reset ==
  /\ AllIdle
  /\ phase = "live"
  /\ rt.stage = "free"
  /\ write_index_' = 0
  /\ read_index_' = 0
  /\ nreset' = 1 - nreset
  /\ UNCHANGED <<pending_pop_read_index, buffer, pc, l_write, l_read, arg,
                 out, res, steps, fcalls, holding, phase, rt>>
  /\ inq' = <<>>
  /\ UNCHANGED faults

\* destructor that frees the buffer without the drain loop
dtor_begin_nodrain ==
  /\ AllIdle
  /\ phase = "live"
  /\ rt.stage = "free"
  /\ phase' = "freed"
  /\ out' = 0
  /\ holding' = FALSE
  /\ UNCHANGED <<cursors, buffer, pc, l_write, l_read, arg, res, steps,
                 fcalls, hist, rt>>

\* ---- ~ringbuffer_base(void) ------------------------------------------------
\* T out; while (pop(out)) {};  The pop calls are the pop actions above, run
\* while phase = "draining"; pop_empty ends the loop and frees the buffer.
dtor_begin ==
  /\ AllIdle
  /\ phase = "live"
  /\ rt.stage = "free"
  /\ phase' = "draining"
  /\ out' = 0
  /\ holding' = FALSE
  /\ UNCHANGED <<cursors, buffer, pc, l_write, l_read, arg, res, steps,
                 fcalls, hist, rt>>

\* ---- ringbuffer_base(void) -------------------------------------------------
Construct(stage) ==
  /\ write_index_ = 0
  /\ read_index_ = 0
  /\ pending_pop_read_index = 0
  /\ buffer = [i \in Slots |-> Raw]
  /\ pc = [t \in Threads |-> "idle"]
  /\ l_write = [t \in Threads |-> 0]
  /\ l_read = [t \in Threads |-> 0]
  /\ arg = 0
  /\ out = 0
  /\ res = [t \in Threads |-> NoRes]
  /\ steps = [t \in Threads |-> 0]
  /\ fcalls = 0
  /\ holding = FALSE
  /\ inq = <<>>
  /\ faults = {}
  /\ nreset = 0
  /\ phase = "live"
  /\ rt = [FreeRt EXCEPT !.stage = stage]

Init == Construct("free")

Producer ==
  \/ \E v \in Values : push_load_write(v)
  \/ push_full
  \/ push_load_read
  \/ push_construct
  \/ push_store

ConsumerPop ==
  \/ pop_load_write
  \/ pop_empty
  \/ pop_load_read
  \/ pop_copy
  \/ pop_destroy
  \/ pop_store

ConsumerFront ==
  \/ front
  \/ pop0_destroy
  \/ pop0_store

ConsumerConsume ==
  \/ consume_one_load_write
  \/ consume_one_empty
  \/ consume_one_load_read
  \/ consume_one_call
  \/ consume_one_destroy
  \/ consume_one_store

Queries ==
  \/ \E t \in Threads : empty_load_write_first(t)
  \/ \E t \in Threads : empty_load_read_first(t)
  \/ \E t \in Threads : empty_load_read_second(t)
  \/ \E t \in Threads : empty_load_write_second(t)
  \/ \E t \in Threads : size_load_write(t)
  \/ \E t \in Threads : size_load_read(t)

\* producer and consumer using every operation that moves an element
Next ==
  \/ Producer
  \/ ConsumerPop
  \/ ConsumerFront
  \/ ConsumerConsume
  \/ dtor_begin

Spec == Init /\ [][Next]_vars

\* the same, with both threads also calling empty() and size()
NextAll ==
  \/ Producer
  \/ ConsumerPop
  \/ ConsumerFront
  \/ ConsumerConsume
  \/ Queries
  \/ dtor_begin

SpecAll == Init /\ [][NextAll]_vars

\* every member function but reset and the destructor, called by both
\* threads as their roles allow
NextFrame ==
  \/ Producer
  \/ ConsumerPop
  \/ ConsumerFront
  \/ ConsumerConsume
  \/ Queries
  \/ \E t \in Threads : is_lock_free(t)

SpecFrame == Init /\ [][NextFrame]_vars

\* push, pop(out) and consume_one with both threads calling empty(), size()
NextQuery ==
  \/ Producer
  \/ ConsumerPop
  \/ ConsumerConsume
  \/ Queries

SpecQuery == Init /\ [][NextQuery]_vars

TypeOK ==
  /\ write_index_ \in Slots
  /\ read_index_ \in Slots
  /\ pending_pop_read_index \in Slots
  /\ phase \in {"live", "draining", "freed"}

\* the queue used with reset(): producer, pop(out), the queries and reset
NextReset ==
  \/ Producer
  \/ ConsumerPop
  \/ Queries
  \/ reset

SpecReset == Init /\ [][NextReset]_vars

\* the sequential round-trip caller on a fresh queue
InitRoundTrip == Construct("e1")

NextRoundTrip ==
  \/ Producer
  \/ ConsumerPop
  \/ Queries

SpecRoundTrip == InitRoundTrip /\ [][NextRoundTrip]_vars

\* ---- derived notions used by the properties --------------------------------
live_slots == {i \in Slots : buffer[i].st = "live"}

\* the slot the consumer is working on, if any
consumer_slot ==
  IF pc["C"] \in {"pop_copy", "pop_destroy", "pop_store", "consume_one_call",
                  "consume_one_destroy", "consume_one_store"}
    THEN {l_read["C"]}
    ELSE IF holding \/ pc["C"] = "pop0_store"
      THEN {pending_pop_read_index}
      ELSE {}

\* the slot the producer is working on, if any
producer_slot ==
  IF pc["P"] \in {"push_construct", "push_store"} THEN {l_write["P"]} ELSE {}

\* C1: in every interleaving, each value handed to the consumer by pop(out),
\* consume_one or front()/pop() is the oldest value of the successful pushes
\* not handed out before: the delivered sequence is always a prefix of the
\* pushed sequence, with no gap, no duplicate and no reordering.
C1_FifoOrder == "out_of_order" \notin faults

\* a value was popped after the read cursor wrapped, another is still queued
C1_Witness ==
  /\ res["C"].op = "pop" /\ res["C"].ok
  /\ read_index_ = 0
  /\ out = MaxVal
  /\ inq # <<>> /\ Head(inq) # MaxVal

\* C2 (as amended): on a fresh queue with max_size slots the sequential caller
\* sees empty() true, exactly max_size - 1 pushes returning true, the next
\* push returning false with size() = max_size - 1, then max_size - 1 pops
\* returning true, empty() true again and one more pop returning false.
C2_RoundTrip ==
  /\ rt.pushes <= Capacity
  /\ rt.stage \in {"fill", "sz", "drain", "e2", "last", "done"} => rt.e1
  /\ rt.stage \in {"sz", "drain", "e2", "last", "done"} => rt.pushes = Capacity
  /\ rt.stage \in {"drain", "e2", "last", "done"} => rt.sz = Capacity
  /\ rt.stage \in {"e2", "last", "done"} =>
       rt.calls = Capacity /\ rt.pops = Capacity
  /\ rt.stage \in {"last", "done"} => rt.e2
  /\ rt.stage = "done" => ~rt.last

C2_Witness ==
  /\ rt.stage = "done"
  /\ rt.pushes = max_size - 1
  /\ rt.pops = rt.pushes
  /\ out \in Values

\* C2 as stated: the number of pushes that succeed on the fresh queue, and
\* the size then reported, is the queue's size parameter max_size.
C2_Original ==
  rt.stage \in {"sz", "drain", "e2", "last", "done"} => rt.pushes = max_size

\* C3: the ring never holds more than max_size - 1 elements: neither the
\* number of live slots nor the number of pushed, not yet removed values
\* exceeds it, so no run of pushes without a removal succeeds more often.
C3_CapacityBound ==
  /\ Cardinality(live_slots) <= Capacity
  /\ Len(inq) <= Capacity

C3_Witness ==
  /\ Len(inq) = Capacity
  /\ res["P"] = [op |-> "push", ok |-> FALSE, n |-> 0]
  /\ write_index_ < read_index_
  /\ pc["C"] = "idle"

\* C4: push returns false exactly when next_index(write_index_) equals the
\* read_index_ it loads, and then changes no cursor and no slot; otherwise it
\* constructs the value in the slot at write_index_, then advances
\* write_index_ by one position and returns true.
C4_PushFull ==
  [][/\ (pc["P"] = "push_load_read" /\ pc["P"]' # "push_load_read") =>
          LET full == ((write_index_ + 1) % max_size = read_index_) IN
          /\ full <=> pc["P"]' = "idle"
          /\ full => res["P"]' = [op |-> "push", ok |-> FALSE, n |-> 0]
          /\ ~full => pc["P"]' = "push_construct"
          /\ UNCHANGED <<cursors, buffer, inq>>
     /\ (pc["P"] = "push_construct" /\ pc["P"]' # "push_construct") =>
          /\ buffer' = [buffer EXCEPT ![write_index_] =
                           [st |-> "live", val |-> arg]]
          /\ pc["P"]' = "push_store"
          /\ UNCHANGED cursors
     /\ (pc["P"] = "push_store" /\ pc["P"]' # "push_store") =>
          /\ buffer[write_index_] = [st |-> "live", val |-> arg]
          /\ write_index_' = (write_index_ + 1) % max_size
          /\ res["P"]' = [op |-> "push", ok |-> TRUE, n |-> 0]
          /\ UNCHANGED <<read_index_, pending_pop_read_index, buffer>>
    ]_vars

C4_Witness ==
  /\ res["P"] = [op |-> "push", ok |-> FALSE, n |-> 0]
  /\ Cardinality(live_slots) = Capacity
  /\ read_index_ = next_index(write_index_)
  /\ read_index_ # 0

\* C5: when the write_index_ and read_index_ values they load are equal,
\* pop(out) and consume_one(f) return false after their two loads and change
\* no cursor, no slot and not out; consume_one has not called f.
C5_EmptyIsPureFailure ==
  [][/\ (pc["C"] = "idle" /\
         pc["C"]' \in {"pop_load_read", "consume_one_load_read"}) =>
          UNCHANGED <<cursors, buffer, out, inq>>
     /\ (pc["C"] = "pop_load_read" /\ pc["C"]' # "pop_load_read"
           /\ l_write["C"] = read_index_) =>
          /\ pc["C"]' = "idle"
          /\ res["C"]' = [op |-> "pop", ok |-> FALSE, n |-> 0]
          /\ UNCHANGED <<cursors, buffer, out, inq>>
     /\ (pc["C"] = "consume_one_load_read"
           /\ pc["C"]' # "consume_one_load_read"
           /\ l_write["C"] = read_index_) =>
          /\ pc["C"]' = "idle"
          /\ res["C"]' = [op |-> "consume_one", ok |-> FALSE, n |-> 0]
          /\ fcalls = 0
          /\ UNCHANGED <<cursors, buffer, out, inq, fcalls>>
    ]_vars

C5_Witness ==
  /\ res["C"] = [op |-> "pop", ok |-> FALSE, n |-> 0]
  /\ phase = "live"
  /\ out \in Values
  /\ read_index_ = write_index_
  /\ read_index_ # 0

\* C6: front() followed by pop() has the effect of one successful pop(out):
\* front() leaves both cursors and all slots alone and refers to the live
\* head slot, whose value is the one pop(out) copies; either removal then
\* destroys exactly the slot at read_index_, which was live, and stores
\* next_index(read_index_) into read_index_, leaving write_index_ and the
\* other slots alone.
C6_PeekRelease ==
  [][/\ (~holding /\ holding') =>
          /\ pending_pop_read_index' = read_index_
          /\ res["C"]' = [op |-> "front", ok |-> TRUE, n |-> read_index_]
          /\ buffer[read_index_].st = "live"
          /\ inq # <<>> /\ buffer[read_index_].val = Head(inq)
          /\ UNCHANGED <<write_index_, read_index_, buffer, inq>>
     /\ (pc["C"] = "pop_copy" /\ pc["C"]' = "pop_destroy") =>
          /\ buffer[read_index_].st = "live"
          /\ inq # <<>> /\ buffer[read_index_].val = Head(inq)
          /\ out' = buffer[read_index_].val
          /\ UNCHANGED <<cursors, buffer>>
     /\ (\/ pc["C"] = "pop_destroy" /\ pc["C"]' = "pop_store"
         \/ pc["C"] = "idle" /\ pc["C"]' = "pop0_store") =>
          /\ buffer[read_index_].st = "live"
          /\ buffer' = [buffer EXCEPT ![read_index_] = Raw]
          /\ UNCHANGED cursors
     /\ (\/ pc["C"] = "pop_store" /\ pc["C"]' = "idle"
         \/ pc["C"] = "pop0_store" /\ pc["C"]' = "idle") =>
          /\ read_index_' = (read_index_ + 1) % max_size
          /\ buffer[read_index_].st = "raw"
          /\ UNCHANGED <<write_index_, buffer>>
    ]_vars

C6_Witness ==
  /\ res["C"].op = "pop0"
  /\ pc["C"] = "idle"
  /\ read_index_ = 0
  /\ inq # <<>>
  /\ phase = "live"

\* C7: nothing is destroyed that is not a live element and no live element
\* is overwritten, so no element is destroyed twice or skipped; between
\* calls the live slots are exactly the elements still queued; when the
\* destructor's drain loop has ended no slot is live and the ring is empty.
C7_DestroyedOnce ==
  /\ "destroy_not_live" \notin faults
  /\ "construct_over_live" \notin faults
  /\ AllIdle => Cardinality(live_slots) = Len(inq)
  /\ phase = "freed" =>
       /\ live_slots = {}
       /\ inq = <<>>
       /\ read_index_ = write_index_

\* the destructor has drained a ring that still held elements
C7_Witness ==
  /\ phase = "freed"
  /\ out = MaxVal
  /\ live_slots = {}
  /\ write_index_ = 0

\* C8: no slot is accessed by both threads: the slot the producer constructs
\* into is not live and is not the slot the consumer reads, destroys or has
\* a reference to, and every slot the consumer reads or destroys is live.
C8_NoSlotRace ==
  /\ faults \cap {"read_not_live", "destroy_not_live",
                   "construct_over_live"} = {}
  /\ producer_slot \cap consumer_slot = {}
  /\ pc["P"] = "push_construct" => buffer[l_write["P"]].st # "live"
  /\ pc["C"] \in {"pop_copy", "pop_destroy", "consume_one_call",
                   "consume_one_destroy"} => buffer[l_read["C"]].st = "live"
  /\ (holding /\ pc["C"] # "pop0_store") =>
       buffer[pending_pop_read_index].st = "live"

\* both threads are inside a slot access at once, after the cursors wrapped
C8_Witness ==
  /\ pc["P"] = "push_construct"
  /\ pc["C"] = "pop_destroy"
  /\ l_write["P"] < l_read["C"]
  /\ Cardinality(live_slots) = Capacity - 1

\* the step of thread t inside a call it has started
step_of(t) ==
  IF t = "P"
    THEN \/ push_full \/ push_load_read \/ push_construct \/ push_store
         \/ empty_load_read_second(t) \/ empty_load_write_second(t)
         \/ size_load_read(t)
    ELSE \/ pop_empty \/ pop_load_read \/ pop_copy \/ pop_destroy
         \/ pop_store \/ pop0_store
         \/ consume_one_empty \/ consume_one_load_read \/ consume_one_call
         \/ consume_one_destroy \/ consume_one_store
         \/ empty_load_read_second(t) \/ empty_load_write_second(t)
         \/ size_load_read(t)

\* the number of steps a call has taken when it is at a position
step_no(l) ==
  CASE l \in {"push_load_read", "pop_load_read", "consume_one_load_read",
              "empty_load_read", "empty_load_write", "size_load_read",
              "pop0_store"} -> 1
    [] l \in {"push_construct", "pop_copy", "consume_one_call"} -> 2
    [] l \in {"push_store", "pop_destroy", "consume_one_destroy"} -> 3
    [] l \in {"pop_store", "consume_one_store"} -> 4
    [] OTHER -> 0

\* C9: a call in progress can always take its next step, whatever the other
\* thread does, and reaches each of its positions after a fixed number of
\* steps, at most five in all: no step waits, loops or retries.
C9_NonBlocking ==
  \A t \in Threads :
    /\ steps[t] <= 5
    /\ pc[t] # "idle" =>
         /\ ENABLED step_of(t)
         /\ steps[t] = step_no(pc[t])

\* the producer is about to be told "full" while the consumer is mid-pop
C9_Witness ==
  /\ pc["P"] = "push_load_read"
  /\ is_full(l_write["P"], read_index_)
  /\ pc["C"] = "pop_destroy"
  /\ steps["C"] = 3

\* C10: reset(), called between calls, sets write_index_ and read_index_ to
\* 0 and leaves every slot as it was: empty() is then true and size() 0,
\* and the slots that were live are still live.
C10_Reset ==
  [][nreset' # nreset =>
       /\ AllIdle
       /\ write_index_' = 0
       /\ read_index_' = 0
       /\ buffer' = buffer
       /\ empty_(write_index_', read_index_')
       /\ size_of(write_index_', read_index_') = 0
    ]_vars

\* a reset has emptied a ring whose slots are all still live
C10_Witness ==
  /\ AllIdle
  /\ write_index_ = 0
  /\ read_index_ = 0
  /\ Cardinality(live_slots) = Capacity
  /\ res["P"] = [op |-> "push", ok |-> FALSE, n |-> 0]

\* one call at a time: every operation runs while no other is in progress
InitSeq == Construct("seq")

NextSeq ==
  \/ Producer
  \/ ConsumerPop
  \/ ConsumerFront
  \/ ConsumerConsume
  \/ Queries

SpecSeq == InitSeq /\ [][NextSeq]_vars

\* forward cyclic distance from index a to index b
cyclic_distance(a, b) == (b - a + max_size) % max_size

\* C11: called while no other operation is in progress, size() returns the
\* forward cyclic distance from read_index_ to write_index_, which is the
\* number of successful pushes minus the number of successful removals, and
\* empty() returns true exactly when the cursors are equal, that is exactly
\* when that number is 0.
C11_SizeEmpty ==
  [][\A t \in Threads :
       /\ (pc[t] = "size_load_read" /\ pc[t]' = "idle") =>
            /\ res[t]'.op = "size"
            /\ res[t]'.n = cyclic_distance(read_index_, write_index_)
            /\ res[t]'.n = Len(inq)
       /\ (pc[t] \in {"empty_load_read", "empty_load_write"}
             /\ pc[t]' = "idle") =>
            /\ res[t]'.op = "empty"
            /\ res[t]'.ok <=> (write_index_ = read_index_)
            /\ res[t]'.ok <=> (Len(inq) = 0)
            /\ res[t]'.ok <=> (size_of(write_index_, read_index_) = 0)
    ]_vars

\* size() has reported a full ring whose write cursor has wrapped
C11_Witness ==
  /\ res["C"] = [op |-> "size", ok |-> TRUE, n |-> Capacity]
  /\ write_index_ < read_index_
  /\ Len(inq) = Capacity
  /\ AllIdle

\* C12: consume_one(f) acts on the ring as pop(out) does: it fails on the
\* same emptiness test, changing nothing, and otherwise destroys the live
\* slot at read_index_ and stores next_index(read_index_) into read_index_,
\* leaving write_index_ and the other slots alone; when it returns true, f
\* has been called exactly once, on the head element, while that element
\* was still live.
C12_ConsumeOne ==
  [][/\ (pc["C"] = "consume_one_load_read" /\ pc["C"]' = "idle") =>
          /\ l_write["C"] = read_index_
          /\ ENABLED pop_empty_at("consume_one_load_read")
          /\ res["C"]' = [op |-> "consume_one", ok |-> FALSE, n |-> 0]
          /\ UNCHANGED <<cursors, buffer, inq, out>>
     /\ (pc["C"] = "consume_one_load_read"
           /\ pc["C"]' = "consume_one_call") =>
          /\ l_write["C"] # read_index_
          /\ ~ENABLED pop_empty_at("consume_one_load_read")
          /\ fcalls = 0
          /\ UNCHANGED <<cursors, buffer, inq, fcalls>>
     /\ (pc["C"] = "consume_one_call"
           /\ pc["C"]' = "consume_one_destroy") =>
          /\ buffer[read_index_].st = "live"
          /\ inq # <<>> /\ buffer[read_index_].val = Head(inq)
          /\ inq' = Tail(inq)
          /\ fcalls = 0 /\ fcalls' = 1
          /\ UNCHANGED <<cursors, buffer>>
     /\ (pc["C"] = "consume_one_destroy"
           /\ pc["C"]' = "consume_one_store") =>
          /\ fcalls = 1
          /\ buffer[read_index_].st = "live"
          /\ buffer' = [buffer EXCEPT ![read_index_] = Raw]
          /\ UNCHANGED <<cursors, fcalls>>
     /\ (pc["C"] = "consume_one_store" /\ pc["C"]' = "idle") =>
          /\ fcalls = 1
          /\ res["C"]' = [op |-> "consume_one", ok |-> TRUE, n |-> 1]
          /\ read_index_' = (read_index_ + 1) % max_size
          /\ buffer[read_index_].st = "raw"
          /\ UNCHANGED <<write_index_, buffer>>
    ]_vars

\* consume_one has returned true after wrapping read_index_, with more queued
C12_Witness ==
  /\ res["C"] = [op |-> "consume_one", ok |-> TRUE, n |-> 1]
  /\ pc["C"] = "idle"
  /\ read_index_ = 0
  /\ inq # <<>>
  /\ phase = "live"

\* the slots of the half-open cyclic range [read_index_, write_index_)
occupied_range ==
  {i \in Slots :
     cyclic_distance(read_index_, i) < cyclic_distance(read_index_, write_index_)}

\* the slot push has constructed (line 112) and not yet published (line 114)
constructed_unpublished ==
  IF pc["P"] = "push_store" THEN {l_write["P"]} ELSE {}

\* the slot a removal has destroyed and not yet given back by its store
destroyed_unpublished ==
  IF pc["C"] \in {"pop_store", "consume_one_store"} THEN {l_read["C"]}
  ELSE IF pc["C"] = "pop0_store" THEN {pending_pop_read_index}
  ELSE {}

\* C13 as stated: in every reachable state the live slots are exactly the
\* slots of the cyclic range [read_index_, write_index_).
C13_Original == live_slots = occupied_range

\* C13: the queue is constructed with both cursors 0 and every slot
\* uninitialized; from then on (no reset) the live slots are the cyclic
\* range [read_index_, write_index_), less the slot a removal has destroyed
\* and not yet released by its read_index_ store, plus the slot a push has
\* constructed and not yet published by its write_index_ store. So the live
\* slots are exactly that range whenever no push is between its
\* construction and its store and no removal between its destruction and
\* its store, and a slot outside the range is live only as the slot at
\* write_index_ that such a push is about to publish.
C13_Occupancy ==
  /\ write_index_ = 0 /\ read_index_ = 0 /\ live_slots = {}
  /\ [](/\ live_slots = (occupied_range \ destroyed_unpublished)
                          \cup constructed_unpublished
        /\ constructed_unpublished \subseteq {write_index_} \ occupied_range
        /\ destroyed_unpublished \subseteq {read_index_} \cap occupied_range
        /\ \A i \in Slots \ live_slots : buffer[i] = Raw)

\* a push and a pop are both between slot access and store, on a wrapped
\* range: the live slots differ from the range in both directions
C13_Witness ==
  /\ pc["P"] = "push_store"
  /\ pc["C"] = "pop_store"
  /\ write_index_ < read_index_
  /\ live_slots # occupied_range
  /\ write_index_ \in live_slots
  /\ read_index_ \notin live_slots

\* C14: with Capacity = max_size - 1 usable places in max_size slots, both
\* cursors and the pending index are always slot indices in 0..Capacity,
\* every index at which an operation constructs, reads or destroys a slot
\* is a slot index, and the cyclic distance from read_index_ to
\* write_index_, which bounds the number of queued elements, is at most
\* Capacity; equal cursors mean that nothing is queued.
C14_CursorRange ==
  /\ write_index_ \in 0..Capacity
  /\ read_index_ \in 0..Capacity
  /\ pending_pop_read_index \in 0..Capacity
  /\ producer_slot \subseteq 0..Capacity
  /\ consumer_slot \subseteq 0..Capacity
  /\ DOMAIN buffer = 0..Capacity
  /\ Len(inq) <= cyclic_distance(read_index_, write_index_)
  /\ cyclic_distance(read_index_, write_index_) <= Capacity
  /\ Cardinality(live_slots) <= Capacity
  /\ write_index_ = read_index_ => inq = <<>> /\ occupied_range = {}

\* a full ring whose consumer reads the last slot of the storage
C14_Witness ==
  /\ cyclic_distance(read_index_, write_index_) = Capacity
  /\ Len(inq) = Capacity
  /\ read_index_ = max_size - 1
  /\ pc["C"] = "pop_copy"
  /\ l_read["C"] = max_size - 1
  /\ res["P"] = [op |-> "push", ok |-> FALSE, n |-> 0]

\* the positions inside push, inside the consumer's removals, inside a query
push_labels == {"push_load_read", "push_construct", "push_store"}

consumer_labels ==
  {"pop_load_read", "pop_copy", "pop_destroy", "pop_store", "pop0_store",
   "consume_one_load_read", "consume_one_call", "consume_one_destroy",
   "consume_one_store"}

query_labels == {"empty_load_read", "empty_load_write", "size_load_read"}

\* this step is a step of thread t inside an operation with positions ls
step_in(t, ls) == pc[t]' # pc[t] /\ (pc[t] \in ls \/ pc[t]' \in ls)

\* this step is a whole call of front(), or of is_lock_free() by thread t
front_step == ~holding /\ holding'

is_lock_free_step(t) == res[t]' # res[t] /\ res[t]'.op = "is_lock_free"

\* C15: a step of push leaves read_index_ and pending_pop_read_index alone;
\* a step of pop(out), front, pop() or consume_one leaves write_index_
\* alone; a step of empty, size or is_lock_free leaves the cursors, the
\* slots, the queued elements and the callers' data alone. So write_index_
\* changes only in a push step, and read_index_ and pending_pop_read_index
\* only in a step of the consumer's operations.
C15_SingleWriter ==
  [][/\ step_in("P", push_labels) =>
          UNCHANGED <<read_index_, pending_pop_read_index>>
     /\ (step_in("C", consumer_labels) \/ front_step) =>
          UNCHANGED write_index_
     /\ \A t \in Threads :
          (step_in(t, query_labels) \/ is_lock_free_step(t)) =>
            UNCHANGED <<cursors, buffer, arg, out, inq, faults, holding>>
     /\ write_index_' # write_index_ => pc["P"] = "push_store" /\ push_store
     /\ read_index_' # read_index_ =>
          /\ pc["C"] \in {"pop_store", "pop0_store", "consume_one_store"}
          /\ pop_store \/ pop0_store \/ consume_one_store
     /\ pending_pop_read_index' # pending_pop_read_index => front
    ]_vars

\* both cursors and the pending index have moved, and the producer has just
\* asked is_lock_free() while the consumer holds a front
C15_Witness ==
  /\ res["P"].op = "is_lock_free"
  /\ holding
  /\ pending_pop_read_index = 1
  /\ read_index_ = 1
  /\ write_index_ = 0
  /\ inq # <<>>

\* a front() has returned and its pop() has not begun
front_pending == holding /\ pc["C"] = "idle"

\* C16: front() stores read_index_ into pending_pop_read_index and changes
\* neither cursor nor any slot. From then until the matching pop(), whatever
\* steps of push are taken, the pending index stays the read_index_ that
\* front() saw, its slot stays live and unchanged and holds the oldest
\* queued element. pop() then destroys exactly that slot and stores the
\* index following the one front() saw into read_index_.
C16_FrontThenRelease ==
  [][/\ front_step =>
          /\ pending_pop_read_index' = read_index_
          /\ res["C"]'.n = read_index_
          /\ UNCHANGED <<write_index_, read_index_, buffer, inq>>
     /\ front_pending =>
          /\ res["C"] = [op |-> "front", ok |-> TRUE,
                         n |-> pending_pop_read_index]
          /\ read_index_ = pending_pop_read_index
          /\ buffer[pending_pop_read_index].st = "live"
          /\ inq # <<>> /\ buffer[pending_pop_read_index].val = Head(inq)
     /\ (front_pending /\ front_pending') =>
          /\ UNCHANGED <<read_index_, pending_pop_read_index>>
          /\ buffer[pending_pop_read_index]' = buffer[pending_pop_read_index]
          /\ Head(inq') = Head(inq)
     /\ (front_pending /\ pc["C"]' = "pop0_store") =>
          /\ buffer' = [buffer EXCEPT ![res["C"].n] = Raw]
          /\ inq' = Tail(inq)
          /\ UNCHANGED cursors
     /\ (pc["C"] = "pop0_store" /\ pc["C"]' = "idle") =>
          /\ read_index_' = (pending_pop_read_index + 1) % max_size
          /\ read_index_ = pending_pop_read_index
          /\ ~holding'
          /\ UNCHANGED <<write_index_, pending_pop_read_index, buffer, inq>>
    ]_vars

\* a push is about to publish an element while pop() is releasing a fronted
\* element of a wrapped ring
C16_Witness ==
  /\ holding
  /\ pc["C"] = "pop0_store"
  /\ pc["P"] = "push_store"
  /\ pending_pop_read_index = max_size - 1
  /\ write_index_ = 0
  /\ l_write["P"] = 0

\* a producer that retries each value until it is accepted and a consumer
\* that keeps calling pop(out), each thread scheduled again and again
InitLive == Construct("retry")

NextLive ==
  \/ Producer
  \/ ConsumerPop

SpecLive ==
  /\ InitLive
  /\ [][NextLive]_vars
  /\ WF_vars(Producer)
  /\ WF_vars(ConsumerPop)

PushOk == [op |-> "push", ok |-> TRUE, n |-> 0]

PopOk == [op |-> "pop", ok |-> TRUE, n |-> 0]

\* C17: with a retrying producer and a popping consumer, both scheduled
\* fairly, a value being pushed is eventually accepted (push returns true
\* and the value is the newest of the queue), a queued value is eventually
\* returned by a successful pop, and push and pop both succeed again and
\* again, so the two threads never settle into "full" and "empty".
C17_Progress ==
  /\ \A v \in Values :
       (arg = v) ~> (/\ res["P"] = PushOk
                     /\ pc["P"] = "idle"
                     /\ inq # <<>> /\ inq[Len(inq)] = v)
  /\ \A v \in Values : \A k \in 1..Capacity :
       (Len(inq) >= k /\ inq[k] = v)
         ~> (res["C"] = PopOk /\ pc["C"] = "idle" /\ out = v)
  /\ []<>(res["P"] = PushOk)
  /\ []<>(res["C"] = PopOk)

\* push has just reported "full" and pop has just reported "empty", and the
\* producer still has its value to push
C17_Witness ==
  /\ retrying
  /\ res["P"] = [op |-> "push", ok |-> FALSE, n |-> 0]
  /\ res["C"] = [op |-> "pop", ok |-> FALSE, n |-> 0]
  /\ AllIdle
  /\ arg # 0
  /\ inq = <<>>

EmptyFalse == [op |-> "empty", ok |-> FALSE, n |-> 0]

\* the consumer is at the emptiness test of pop(out) or consume_one
at_empty_test == pc["C"] \in {"pop_load_read", "consume_one_load_read"}

\* C18: with the two loads of size() and empty() taken as separate steps
\* among the other thread's steps, size() returns a value in 0..Capacity.
\* While the consumer's last result is empty() = false the ring is not
\* empty; a pop(out) or consume_one called on a ring that is not empty
\* finds it not empty at its test, whatever the producer does meanwhile,
\* and a removal returns false only from that test: so it returns true.
\* While the producer's last result is a size() below Capacity, at most
\* that many elements are queued; a push called on a ring that is not full
\* finds it not full at its test, whatever the consumer does meanwhile,
\* and push returns false only from that test: so it returns true.
C18_RacyQueries ==
  [][/\ \A t \in Threads :
          res[t]'.op = "size" => res[t]'.n \in 0..Capacity
     /\ (res["C"] = EmptyFalse /\ pc["C"] = "idle") =>
          write_index_ # read_index_
     /\ (pc["C"] = "idle" /\ at_empty_test') =>
          (write_index_ # read_index_ => l_write["C"]' # read_index_')
     /\ (at_empty_test /\ at_empty_test') =>
          UNCHANGED <<l_write["C"], read_index_>>
     /\ (step_in("C", consumer_labels) /\ pc["C"]' = "idle"
           /\ ~res["C"]'.ok) =>
          at_empty_test /\ l_write["C"] = read_index_
     /\ (res["P"].op = "size" /\ pc["P"] = "idle") =>
          /\ cyclic_distance(read_index_, write_index_) <= res["P"].n
          /\ Len(inq) <= res["P"].n
          /\ res["P"].n < Capacity => ~is_full(write_index_, read_index_)
     /\ (pc["P"] = "idle" /\ pc["P"]' = "push_load_read") =>
          l_write["P"]' = write_index_
     /\ (pc["P"] = "push_load_read" /\ pc["P"]' = "push_load_read") =>
          /\ UNCHANGED <<l_write["P"], write_index_>>
          /\ ~is_full(l_write["P"], read_index_) =>
               ~is_full(l_write["P"], read_index_')
     /\ (step_in("P", push_labels) /\ pc["P"]' = "idle"
           /\ ~res["P"]'.ok) =>
          pc["P"] = "push_load_read" /\ is_full(l_write["P"], read_index_)
    ]_vars

\* the producer holds a size() below Capacity and the consumer an
\* empty() = false, on a wrapped ring
C18_Witness ==
  /\ res["P"] = [op |-> "size", ok |-> TRUE, n |-> Capacity - 1]
  /\ res["C"] = EmptyFalse
  /\ AllIdle
  /\ write_index_ < read_index_

\* next_index applied n times to index i
RECURSIVE iterate(_, _)
iterate(i, n) == IF n = 0 THEN i ELSE next_index(iterate(i, n - 1))

\* C19: for every index i in 0..Capacity, next_index(i) is i + 1, except
\* that it is 0 for i = Capacity, that is (i + 1) mod (Capacity + 1),
\* whether or not Capacity + 1 is a power of two; applied Capacity + 1
\* times it returns to i, and not sooner; and every change of write_index_
\* or read_index_ by push, pop(out), pop() or consume_one replaces the
\* cursor by next_index of its value.
C19_IndexArithmetic ==
  /\ \A i \in 0..Capacity :
       /\ next_index(i) = (IF i = Capacity THEN 0 ELSE i + 1)
       /\ next_index(i) = (i + 1) % (Capacity + 1)
       /\ next_index(i) \in 0..Capacity
       /\ iterate(i, Capacity + 1) = i
       /\ \A n \in 1..Capacity : iterate(i, n) # i
  /\ [][/\ write_index_' # write_index_ =>
             /\ push_store
             /\ write_index_' = next_index(write_index_)
             /\ write_index_' = (write_index_ + 1) % (Capacity + 1)
        /\ read_index_' # read_index_ =>
             /\ pop_store \/ pop0_store \/ consume_one_store
             /\ read_index_' = next_index(read_index_)
             /\ read_index_' = (read_index_ + 1) % (Capacity + 1)
       ]_vars

\* both cursors have gone once around the ring and are back at index 0
C19_Witness ==
  /\ write_index_ = 0
  /\ read_index_ = 0
  /\ res["P"] = PushOk
  /\ res["C"] = [op |-> "consume_one", ok |-> TRUE, n |-> 1]
  /\ AllIdle
  /\ phase = "live"

====
